---- MODULE Spec2Model ----
(***************************************************************************)
(* The register-peer POST handler (src/unnamed/part_000) and the signer    *)
(* factory createSignerForUser                                             *)
(* (src/modal-login/app/lib/createSignerForUser.ts).                       *)
(*                                                                         *)
(* One behaviour of Spec is one request: the request body and the store    *)
(* contents are chosen in Init, and every call the handler makes to the    *)
(* store or to a provider SDK either returns or throws.  Each call is      *)
(* appended to `calls` with its arguments and its outcome.                 *)
(***************************************************************************)
EXTENDS Naturals, Sequences, FiniteSets, TLC

VARIABLES
    body,        \* the request body as sent (POST's input)
    users,       \* the store: orgId -> user data (read by getUser)
    apiKeys,     \* the store: orgId -> latest api key (read by getLatestApiKey)
    pc,          \* the handler's position
    bodyVal,     \* the local `body` (line 30)
    user,        \* the local `user` (line 52)
    apiKey,      \* the local `apiKey` (line 61)
    callData,    \* the encoded registerPeer call (lines 141-145)
    err,         \* the caught `err` (line 157)
    revertData,  \* the local `revertData` (line 195)
    calls,       \* every store, SDK and decoding call made so far, in order
    response,    \* the NextResponse the handler returned
    rejection,   \* the exception the handler ended with instead of returning
    sUser,       \* createSignerForUser: the `user` argument
    sTransport,  \* createSignerForUser: the `transport` argument
    signer,      \* createSignerForUser: the returned WalletClientSigner
    signLog      \* outcomes of the sign calls made on the signer's account

vars == <<body, users, apiKeys, pc, bodyVal, user, apiKey, callData, err,
          revertData, calls, response, rejection,
          sUser, sTransport, signer, signLog>>

handlerVars == <<body, users, apiKeys, pc, bodyVal, user, apiKey, callData, err,
                 revertData, calls, response, rejection>>

signerVars == <<sUser, sTransport, signer, signLog>>

----------------------------------------------------------------------------
(* Bounds of the model.                                                    *)

NumOrgs == 2

NumPeers == 2

MaxSignCalls == 3

----------------------------------------------------------------------------
(* Values.                                                                 *)

\* JavaScript's `undefined`, where a string is expected.
Undefined == "<undefined>"

OrgIds == {"org" \o ToString(i) : i \in 1..NumOrgs}

PeerIds == {"peer" \o ToString(i) : i \in 1..NumPeers}

Addresses == {"0xA1", "0xA2"}

Digests == {"0xD1", "0xD2"}

Hashes == {"0xH1", "0xH2"}

\* `!x` for a string-or-undefined x.
Falsy(x) == x = Undefined \/ x = ""

\* Request bodies: text that is not JSON, the JSON value null, a JSON value
\* that is no object and carries no properties (a number, a string, true),
\* and objects whose orgId and peerId are strings or absent.
Bodies ==
    {[kind |-> k, orgId |-> Undefined, peerId |-> Undefined] :
        k \in {"unparseable", "null", "primitive"}}
    \cup {[kind |-> "object", orgId |-> o, peerId |-> p] :
            o \in OrgIds \cup {Undefined, ""}, p \in PeerIds \cup {Undefined}}

NoUser == [exists |-> FALSE, address |-> Undefined]

UserDatas == {NoUser} \cup {[exists |-> TRUE, address |-> a] : a \in Addresses}

NoApiKey == [exists |-> FALSE, deferredActionDigest |-> Undefined]

ApiKeys ==
    {NoApiKey}
    \cup {[exists |-> TRUE, deferredActionDigest |-> d] : d \in Digests \cup {Undefined}}

\* Names of thrown errors other than viem's HttpRequestError.
OtherErrorNames == {"Error", "TypeError"}

\* Selectors of the errors the contract ABI declares, and one it does not.
AbiSelectors == {"0xe1", "0xe2"}

UnknownSelector == "0xff"

RevertDatas == AbiSelectors \cup {UnknownSelector}

\* The `details` of a thrown error: absent, a string that is not of the
\* schema's shape, or a string of the schema's shape carrying revertData.
NoDetails == [kind |-> "undefined", revertData |-> Undefined]

DetailsValues ==
    {NoDetails, [kind |-> "malformed", revertData |-> Undefined]}
    \cup {[kind |-> "revert", revertData |-> r] : r \in RevertDatas}

\* Everything a call may throw.
Errors ==
    {[name |-> n, details |-> NoDetails] : n \in OtherErrorNames}
    \cup {[name |-> "HttpRequestError", details |-> d] : d \in DetailsValues}

NoError == [name |-> "<none>", details |-> NoDetails]

NoResponse == [status |-> 0, error |-> Undefined, hash |-> Undefined]

ErrorResponse(status, message) ==
    [status |-> status, error |-> message, hash |-> Undefined]

\* One entry of `calls`: the operation, whether it returned (ok) or threw,
\* the identifiers passed to it and the identifiers it returned.
Call(op, ok, arg, ret) == [op |-> op, ok |-> ok, arg |-> arg, ret |-> ret]

----------------------------------------------------------------------------
(* Pure parts of the handler.                                              *)

\* request.json().catch(...): the parsed body, or, when parsing fails, the
\* NextResponse the catch callback returns (an object with no orgId).
RequestJson(b) ==
    IF b.kind = "unparseable"
    THEN [kind |-> "response", orgId |-> Undefined, peerId |-> Undefined]
    ELSE b

\* body.orgId throws a TypeError when body is null.
OrgIdReadThrows(v) == v.kind = "null"

BadRequest(v) == Falsy(v.orgId)

GetUserResult(org) == users[org]

\* Mutation: the `!user` check is dropped.
UserNeverMissing(u) == FALSE

UserMissing(u) == ~u.exists

GetLatestApiKeyResult(org) == apiKeys[org]

\* Mutation: only `!apiKey` is checked, not the digest.
ApiKeyObjectMissing(k) == ~k.exists

ApiKeyMissing(k) == ~k.exists \/ Falsy(k.deferredActionDigest)

WalletClientAccount(u) == u.address

DeferredAction(k) == k.deferredActionDigest

\* Mutation: the orgId is passed to registerPeer.
EncodedCallOrgId(v) == <<"registerPeer", v.orgId>>

\* encodeFunctionData({abi, functionName: "registerPeer", args: [body.peerId]})
EncodedCall(v) == <<"registerPeer", v.peerId>>

\* Mutation: the response is built without the returned hash.
SuccessResponseNoHash(hash) == [status |-> 200, error |-> Undefined, hash |-> Undefined]

SuccessResponse(hash) == [status |-> 200, error |-> Undefined, hash |-> hash]

\* Mutation: the error's name is not checked.
AnyErrorIsHttpRequestError(e) == TRUE

IsHttpRequestError(e) == e.name = "HttpRequestError"

\* httpRequestErroDetailsStringSchema.safeParse(error.details)
SafeParse(details) ==
    [success |-> details.kind = "revert", revertData |-> details.revertData]

AbiErrorName(selector) ==
    CASE selector = "0xe1" -> "AbiErrorOne"
      [] selector = "0xe2" -> "AbiErrorTwo"
      [] OTHER -> Undefined

\* decodeErrorResult({data, abi}): the error of the ABI whose selector the data
\* starts with; it throws when the ABI has none.
DecodeErrorResult(data) ==
    [ok |-> data \in AbiSelectors, errorName |-> AbiErrorName(data)]

\* Mutation: the modular account is created before the wallet client.
StepAfterSwapped(step) ==
    CASE step = "getUser" -> "getLatestApiKey"
      [] step = "getLatestApiKey" -> "alchemy"
      [] step = "alchemy" -> "createModularAccountV2"
      [] step = "createModularAccountV2" -> "createWalletClient"
      [] step = "createWalletClient" -> "createAlchemySmartAccountClient"
      [] step = "createAlchemySmartAccountClient" -> "encodeFunctionData"
      [] step = "encodeFunctionData" -> "sendUserOperation"
      [] OTHER -> "done"

\* The statement order of the try block.
StepAfter(step) ==
    CASE step = "getUser" -> "getLatestApiKey"
      [] step = "getLatestApiKey" -> "alchemy"
      [] step = "alchemy" -> "createWalletClient"
      [] step = "createWalletClient" -> "createModularAccountV2"
      [] step = "createModularAccountV2" -> "createAlchemySmartAccountClient"
      [] step = "createAlchemySmartAccountClient" -> "encodeFunctionData"
      [] step = "encodeFunctionData" -> "sendUserOperation"
      [] OTHER -> "done"

----------------------------------------------------------------------------
(* createSignerForUser.                                                    *)

Transports == {"transport1", "transport2"}

Messages == {"msg1", "msg2"}

\* A signing callback: what calling it does.
NotImplemented == [throws |-> TRUE, value |-> "Not implemented"]

\* Mutation: signMessage signs locally instead of throwing.
SignMessageLocal == [throws |-> FALSE, value |-> "0xsig"]

SignMessageFn == NotImplemented

SignTransactionFn == NotImplemented

SignTypedDataFn == NotImplemented

\* Calling a signing callback on an input.
Invoke(fn, input) ==
    IF fn.throws
    THEN [ok |-> FALSE, error |-> fn.value, signature |-> Undefined]
    ELSE [ok |-> TRUE, error |-> Undefined, signature |-> fn.value \o input]

\* toAccount({address, signMessage, signTransaction, signTypedData})
ToAccount(address, signMessage, signTransaction, signTypedData) ==
    [address |-> address, signMessage |-> signMessage,
     signTransaction |-> signTransaction, signTypedData |-> signTypedData]

NoAccount == ToAccount(Undefined, NotImplemented, NotImplemented, NotImplemented)

NoSigner ==
    [signerType |-> "<none>", account |-> NoAccount, chain |-> Undefined,
     transport |-> Undefined]

CreateSignerForUser(u, transport) ==
    [signerType |-> "custom",
     account |-> ToAccount(u.address, SignMessageFn, SignTransactionFn,
                           SignTypedDataFn),
     chain |-> "gensynTestnet",
     transport |-> transport]

CreateSigner ==
    /\ pc = "signerStart"
    /\ signer' = CreateSignerForUser(sUser, sTransport)
    /\ pc' = "signerReady"
    /\ UNCHANGED <<body, users, apiKeys, bodyVal, user, apiKey, callData, err,
                   revertData, calls, response, rejection>>
    /\ UNCHANGED <<sUser, sTransport, signLog>>

SignMessage ==
    /\ pc = "signerReady"
    /\ Len(signLog) < MaxSignCalls
    /\ \E m \in Messages :
         signLog' = Append(signLog,
                           [method |-> "signMessage", input |-> m,
                            result |-> Invoke(signer.account.signMessage, m)])
    /\ UNCHANGED handlerVars
    /\ UNCHANGED <<sUser, sTransport, signer>>

SignTransaction ==
    /\ pc = "signerReady"
    /\ Len(signLog) < MaxSignCalls
    /\ \E m \in Messages :
         signLog' = Append(signLog,
                           [method |-> "signTransaction", input |-> m,
                            result |-> Invoke(signer.account.signTransaction, m)])
    /\ UNCHANGED handlerVars
    /\ UNCHANGED <<sUser, sTransport, signer>>

SignTypedData ==
    /\ pc = "signerReady"
    /\ Len(signLog) < MaxSignCalls
    /\ \E m \in Messages :
         signLog' = Append(signLog,
                           [method |-> "signTypedData", input |-> m,
                            result |-> Invoke(signer.account.signTypedData, m)])
    /\ UNCHANGED handlerVars
    /\ UNCHANGED <<sUser, sTransport, signer>>

----------------------------------------------------------------------------
(* The POST handler, one action per statement that calls out or returns.   *)

\* A call inside the try block throws: control goes to the catch clause.
Throws(op, arg) ==
    \E e \in Errors :
        /\ calls' = Append(calls, Call(op, FALSE, arg, <<>>))
        /\ err' = e
        /\ pc' = "catch"

\* A call inside the try block returns: control goes to the next statement.
Returns(op, arg, ret) ==
    /\ calls' = Append(calls, Call(op, TRUE, arg, ret))
    /\ pc' = StepAfter(op)

Respond(r) ==
    /\ response' = r
    /\ pc' = "done"

ParseBody ==
    /\ pc = "start"
    /\ bodyVal' = RequestJson(body)
    /\ pc' = "checkOrgId"
    /\ UNCHANGED <<body, users, apiKeys, user, apiKey, callData, err,
                   revertData, calls, response, rejection>>
    /\ UNCHANGED signerVars

CheckOrgId ==
    /\ pc = "checkOrgId"
    /\ IF OrgIdReadThrows(bodyVal)
       THEN /\ pc' = "rejected"
            /\ rejection' = "TypeError"
            /\ UNCHANGED response
       ELSE IF BadRequest(bodyVal)
       THEN /\ Respond(ErrorResponse(400, "bad request"))
            /\ UNCHANGED rejection
       ELSE /\ pc' = "getUser"
            /\ UNCHANGED <<response, rejection>>
    /\ UNCHANGED <<body, users, apiKeys, bodyVal, user, apiKey, callData, err,
                   revertData, calls>>
    /\ UNCHANGED signerVars

GetUser ==
    /\ pc = "getUser"
    /\ \/ LET u == GetUserResult(bodyVal.orgId) IN
            /\ user' = u
            /\ IF UserMissing(u)
               THEN /\ calls' = Append(calls, Call("getUser", TRUE,
                                                   <<bodyVal.orgId>>, <<u.address>>))
                    /\ Respond(ErrorResponse(404, "user not found"))
               ELSE /\ Returns("getUser", <<bodyVal.orgId>>, <<u.address>>)
                    /\ UNCHANGED response
            /\ UNCHANGED err
       \/ /\ Throws("getUser", <<bodyVal.orgId>>)
          /\ UNCHANGED <<user, response>>
    /\ UNCHANGED <<body, users, apiKeys, bodyVal, apiKey, callData,
                   revertData, rejection>>
    /\ UNCHANGED signerVars

GetLatestApiKey ==
    /\ pc = "getLatestApiKey"
    /\ \/ LET k == GetLatestApiKeyResult(bodyVal.orgId) IN
            /\ apiKey' = k
            /\ IF ApiKeyMissing(k)
               THEN /\ calls' = Append(calls, Call("getLatestApiKey", TRUE,
                                                   <<bodyVal.orgId>>,
                                                   <<k.deferredActionDigest>>))
                    /\ Respond(ErrorResponse(500, "api key not found"))
               ELSE /\ Returns("getLatestApiKey", <<bodyVal.orgId>>,
                               <<k.deferredActionDigest>>)
                    /\ UNCHANGED response
            /\ UNCHANGED err
       \/ /\ Throws("getLatestApiKey", <<bodyVal.orgId>>)
          /\ UNCHANGED <<apiKey, response>>
    /\ UNCHANGED <<body, users, apiKeys, bodyVal, user, callData,
                   revertData, rejection>>
    /\ UNCHANGED signerVars

\* alchemy({apiKey})
CreateTransport ==
    /\ pc = "alchemy"
    /\ \/ /\ Returns("alchemy", <<>>, <<>>)
          /\ UNCHANGED err
       \/ Throws("alchemy", <<>>)
    /\ UNCHANGED <<body, users, apiKeys, bodyVal, user, apiKey, callData,
                   revertData, response, rejection>>
    /\ UNCHANGED signerVars

\* createWalletClient({account: user.address, chain, transport})
CreateWalletClient ==
    /\ pc = "createWalletClient"
    /\ \/ /\ Returns("createWalletClient", <<WalletClientAccount(user)>>, <<>>)
          /\ UNCHANGED err
       \/ Throws("createWalletClient", <<WalletClientAccount(user)>>)
    /\ UNCHANGED <<body, users, apiKeys, bodyVal, user, apiKey, callData,
                   revertData, response, rejection>>
    /\ UNCHANGED signerVars

\* createModularAccountV2({transport, chain, signer, deferredAction})
CreateModularAccount ==
    /\ pc = "createModularAccountV2"
    /\ \/ /\ Returns("createModularAccountV2", <<DeferredAction(apiKey)>>, <<>>)
          /\ UNCHANGED err
       \/ Throws("createModularAccountV2", <<DeferredAction(apiKey)>>)
    /\ UNCHANGED <<body, users, apiKeys, bodyVal, user, apiKey, callData,
                   revertData, response, rejection>>
    /\ UNCHANGED signerVars

\* createAlchemySmartAccountClient({account, chain, transport, policyId})
CreateSmartAccountClient ==
    /\ pc = "createAlchemySmartAccountClient"
    /\ \/ /\ Returns("createAlchemySmartAccountClient", <<>>, <<>>)
          /\ UNCHANGED err
       \/ Throws("createAlchemySmartAccountClient", <<>>)
    /\ UNCHANGED <<body, users, apiKeys, bodyVal, user, apiKey, callData,
                   revertData, response, rejection>>
    /\ UNCHANGED signerVars

EncodeFunctionData ==
    /\ pc = "encodeFunctionData"
    /\ \/ /\ callData' = EncodedCall(bodyVal)
          /\ Returns("encodeFunctionData", <<bodyVal.peerId>>, EncodedCall(bodyVal))
          /\ UNCHANGED err
       \/ /\ Throws("encodeFunctionData", <<bodyVal.peerId>>)
          /\ UNCHANGED callData
    /\ UNCHANGED <<body, users, apiKeys, bodyVal, user, apiKey,
                   revertData, response, rejection>>
    /\ UNCHANGED signerVars

SendUserOperation ==
    /\ pc = "sendUserOperation"
    /\ \/ \E hash \in Hashes :
            /\ calls' = Append(calls, Call("sendUserOperation", TRUE,
                                           callData, <<hash>>))
            /\ Respond(SuccessResponse(hash))
            /\ UNCHANGED err
       \/ /\ Throws("sendUserOperation", callData)
          /\ UNCHANGED response
    /\ UNCHANGED <<body, users, apiKeys, bodyVal, user, apiKey, callData,
                   revertData, rejection>>
    /\ UNCHANGED signerVars

Catch ==
    /\ pc = "catch"
    /\ IF ~IsHttpRequestError(err)
       THEN Respond(ErrorResponse(500, "An unexpected error occurred"))
       ELSE /\ pc' = "safeParse"
            /\ UNCHANGED response
    /\ UNCHANGED <<body, users, apiKeys, bodyVal, user, apiKey, callData, err,
                   revertData, calls, rejection>>
    /\ UNCHANGED signerVars

ParseDetails ==
    /\ pc = "safeParse"
    /\ LET parsedDetailsResult == SafeParse(err.details) IN
         /\ calls' = Append(calls, Call("safeParse", parsedDetailsResult.success,
                                        <<>>, <<>>))
         /\ IF ~parsedDetailsResult.success
            THEN /\ Respond(ErrorResponse(500,
                     "An unexpected error occurred getting request details"))
                 /\ UNCHANGED revertData
            ELSE /\ revertData' = parsedDetailsResult.revertData
                 /\ pc' = "decodeErrorResult"
                 /\ UNCHANGED response
    /\ UNCHANGED <<body, users, apiKeys, bodyVal, user, apiKey, callData, err,
                   rejection>>
    /\ UNCHANGED signerVars

DecodeError ==
    /\ pc = "decodeErrorResult"
    /\ LET decodedError == DecodeErrorResult(revertData) IN
         /\ calls' = Append(calls, Call("decodeErrorResult", decodedError.ok,
                                        <<revertData>>, <<decodedError.errorName>>))
         /\ IF decodedError.ok
            THEN /\ Respond(ErrorResponse(400, decodedError.errorName))
                 /\ UNCHANGED rejection
            ELSE /\ pc' = "rejected"
                 /\ rejection' = "AbiErrorSignatureNotFoundError"
                 /\ UNCHANGED response
    /\ UNCHANGED <<body, users, apiKeys, bodyVal, user, apiKey, callData, err,
                   revertData>>
    /\ UNCHANGED signerVars

Init ==
    /\ body \in Bodies
    /\ users \in [OrgIds -> UserDatas]
    /\ apiKeys \in [OrgIds -> ApiKeys]
    /\ pc = "start"
    /\ bodyVal = [kind |-> "<unset>", orgId |-> Undefined, peerId |-> Undefined]
    /\ user = NoUser
    /\ apiKey = NoApiKey
    /\ callData = <<>>
    /\ err = NoError
    /\ revertData = Undefined
    /\ calls = <<>>
    /\ response = NoResponse
    /\ rejection = "<none>"
    /\ sUser = NoUser
    /\ sTransport = Undefined
    /\ signer = NoSigner
    /\ signLog = <<>>

Next ==
    \/ ParseBody
    \/ CheckOrgId
    \/ GetUser
    \/ GetLatestApiKey
    \/ CreateTransport
    \/ CreateWalletClient
    \/ CreateModularAccount
    \/ CreateSmartAccountClient
    \/ EncodeFunctionData
    \/ SendUserOperation
    \/ Catch
    \/ ParseDetails
    \/ DecodeError

Spec == Init /\ [][Next]_vars

\* createSignerForUser on its own: a stored user and a transport are chosen,
\* the signer is created, and its account's signing callbacks are called.
SignerInit ==
    /\ body = [kind |-> "unparseable", orgId |-> Undefined, peerId |-> Undefined]
    /\ users = [o \in OrgIds |-> NoUser]
    /\ apiKeys = [o \in OrgIds |-> NoApiKey]
    /\ pc = "signerStart"
    /\ bodyVal = [kind |-> "<unset>", orgId |-> Undefined, peerId |-> Undefined]
    /\ user = NoUser
    /\ apiKey = NoApiKey
    /\ callData = <<>>
    /\ err = NoError
    /\ revertData = Undefined
    /\ calls = <<>>
    /\ response = NoResponse
    /\ rejection = "<none>"
    /\ sUser \in UserDatas \ {NoUser}
    /\ sTransport \in Transports
    /\ signer = NoSigner
    /\ signLog = <<>>

SignerNext ==
    \/ CreateSigner
    \/ SignMessage
    \/ SignTransaction
    \/ SignTypedData

SignerSpec == SignerInit /\ [][SignerNext]_vars

----------------------------------------------------------------------------
(* Properties.                                                             *)

ProviderOrder ==
    <<"alchemy", "createWalletClient", "createModularAccountV2",
      "createAlchemySmartAccountClient", "sendUserOperation">>

ProviderOps == {ProviderOrder[i] : i \in 1..Len(ProviderOrder)}

StoreOps == {"getUser", "getLatestApiKey"}

TryOps == StoreOps \cup ProviderOps \cup {"encodeFunctionData"}

DecodingOps == {"safeParse", "decodeErrorResult"}

HasCall(op) == \E i \in 1..Len(calls) : calls[i].op = op

IsProviderCall(c) == c.op \in ProviderOps

ProviderCalls == SelectSeq(calls, IsProviderCall)

Finished == pc \in {"done", "rejected"}

StoreLookupThrew ==
    \E i \in 1..Len(calls) : calls[i].op \in StoreOps /\ ~calls[i].ok

SentOk == \E i \in 1..Len(calls) : calls[i].op = "sendUserOperation" /\ calls[i].ok

HasOrgId == body.kind = "object" /\ ~Falsy(body.orgId)

\* C1: the handler always ends by returning a response, never by throwing,
\* and the response is 200 with a hash or 400, 404 or 500 with an error.
C1_AlwaysReturnsResponse ==
    /\ pc # "rejected"
    /\ pc = "done" =>
         \/ /\ response.status = 200
            /\ response.hash \in Hashes
         \/ /\ response.status \in {400, 404, 500}
            /\ response.error # Undefined

\* C2: once a step of the try block has thrown an error whose name is not
\* "HttpRequestError", the handler neither parses the details nor decodes
\* revert data, and it ends with 500 "An unexpected error occurred".
C2_UnexpectedError500 ==
    (err # NoError /\ err.name # "HttpRequestError") =>
        /\ pc \in {"catch", "done"}
        /\ ~HasCall("safeParse")
        /\ ~HasCall("decodeErrorResult")
        /\ pc = "done" =>
             response = ErrorResponse(500, "An unexpected error occurred")

C2_Witness ==
    /\ pc = "done"
    /\ err.name = "TypeError"
    /\ calls[Len(calls)].op = "sendUserOperation"
    /\ response = ErrorResponse(500, "An unexpected error occurred")

\* C3: when the caught error is named "HttpRequestError", the handler ends
\* with 400 and the decoded error name if the details conform to the schema,
\* and with 500 "An unexpected error occurred getting request details" and no
\* decoding if they do not.
C3_HttpRequestErrorResponse ==
    (err.name = "HttpRequestError" /\ Finished) =>
        IF err.details.kind = "revert"
        THEN /\ pc = "done"
             /\ HasCall("decodeErrorResult")
             /\ response = ErrorResponse(400, AbiErrorName(err.details.revertData))
        ELSE /\ pc = "done"
             /\ ~HasCall("decodeErrorResult")
             /\ response = ErrorResponse(500,
                    "An unexpected error occurred getting request details")

\* C4: the provider calls made so far are an initial part of the fixed order
\* transport, wallet client, modular account, smart-account client, send; a
\* step of the try block starts only after the step before it returned; the
\* user operation is sent at most once; and details are parsed and revert
\* data decoded only after a step has thrown.
C4_ProviderOrder ==
    /\ Len(ProviderCalls) <= Len(ProviderOrder)
    /\ \A i \in 1..Len(ProviderCalls) : ProviderCalls[i].op = ProviderOrder[i]
    /\ \A i \in 2..Len(calls) : calls[i].op \in TryOps => calls[i - 1].ok
    /\ Cardinality({i \in 1..Len(calls) : calls[i].op = "sendUserOperation"}) <= 1
    /\ \A i \in 1..Len(calls) :
         calls[i].op \in DecodingOps =>
            \E j \in 1..(i - 1) : calls[j].op \in TryOps /\ ~calls[j].ok

C4_Witness ==
    /\ pc = "done"
    /\ response.status = 200
    /\ Len(ProviderCalls) = 5

\* Whenever a user operation has been sent, it carries the request's peerId,
\* the wallet client was given the address stored under the request's orgId
\* and the modular account the digest stored under it.
Forwarded ==
    HasCall("sendUserOperation") =>
        \A i \in 1..Len(calls) :
            /\ calls[i].op = "sendUserOperation" =>
                 calls[i].arg = <<"registerPeer", body.peerId>>
            /\ calls[i].op = "createWalletClient" =>
                 calls[i].arg = <<users[body.orgId].address>>
            /\ calls[i].op = "createModularAccountV2" =>
                 calls[i].arg = <<apiKeys[body.orgId].deferredActionDigest>>

\* C5: no step of the handler changes the store or the request, and after
\* every step the identifiers passed on are those of the request and of the
\* store entries under the request's orgId.
C5_ForwardedUnchanged ==
    [][users' = users /\ apiKeys' = apiKeys /\ body' = body /\ Forwarded']_vars

C5_Witness ==
    /\ pc = "done"
    /\ response.status = 200
    /\ body.orgId = "org2"
    /\ users["org1"].address # users["org2"].address
    /\ apiKeys["org1"] # apiKeys["org2"]
    /\ HasCall("sendUserOperation")

\* C6: a 200 response is returned only when the user operation was sent and
\* returned, its hash is the hash that call returned, and whenever the send
\* returned the handler ends with 200.
C6_SuccessIffSent ==
    /\ response.status = 200 =>
         \E i \in 1..Len(calls) :
            /\ calls[i].op = "sendUserOperation"
            /\ calls[i].ok
            /\ calls[i].ret = <<response.hash>>
    /\ SentOk => (pc = "done" /\ response.status = 200)

C6_Witness ==
    /\ pc = "done"
    /\ response = SuccessResponse("0xH2")
    /\ SentOk

C9_BadRequest ==
    (~HasOrgId /\ Finished) =>
        /\ pc = "done"
        /\ response = ErrorResponse(400, "bad request")
        /\ calls = <<>>

\* C10: the signer createSignerForUser returns is bound to the user's address
\* and every call of its account's signMessage, signTransaction or
\* signTypedData fails with "Not implemented".
C10_SignerNeverSigns ==
    pc = "signerReady" =>
        /\ signer.account.address = sUser.address
        /\ signer.transport = sTransport
        /\ \A i \in 1..Len(signLog) :
             signLog[i].result =
                [ok |-> FALSE, error |-> "Not implemented", signature |-> Undefined]

C10_Witness ==
    /\ pc = "signerReady"
    /\ Len(signLog) = 3
    /\ {signLog[i].method : i \in 1..3} =
          {"signMessage", "signTransaction", "signTypedData"}
    /\ signer.account.address = "0xA2"

====
